---- MODULE Spec2Model ----
(***************************************************************************)
(* A model of NaiveBayes.py: the SpamFilter class (tokenizer, training,    *)
(* additive smoothing, inference), split_train_test and the __main__       *)
(* evaluation script.                                                      *)
(*                                                                         *)
(* Representation.                                                         *)
(*  - A message text is a sequence of one-character strings; a token (the  *)
(*    result of word.lower()) is a string.                                 *)
(*  - A float that the program computes as a quotient of two integers is   *)
(*    kept as the reduced fraction <<numerator, denominator>> of the exact *)
(*    quotient.  math.log(x) of a positive fraction x is represented by x  *)
(*    itself, the sum of two logarithms by the product of the fractions,   *)
(*    and math.exp gives the fraction back.                                *)
(*  - A defaultdict is a function whose DOMAIN is the key set.             *)
(***************************************************************************)
EXTENDS Integers, Sequences, FiniteSets, Bags, TLC

VARIABLES
    filter,       \* the SpamFilter instance: its four attributes
    history,      \* every (is_spam, message) pair passed to train so far, in order
    batches,      \* the length of the batch of every completed train call, in order
    result,       \* what the call just made returned, when it was probability_spam
    message,      \* the text argument of the call just made
    words,        \* return value of _tokenize_words
    data,         \* argument of split_train_test / the messages list of __main__
    train_data,   \* first element returned by split_train_test
    test_data,    \* second element returned by split_train_test
    raised,       \* the exception that ended the call just made, or "none"
    stats,        \* the stats dictionary of __main__
    printed,      \* the precision line printed by __main__
    pc            \* position of the running script or call

vars == <<filter, history, batches, result, message, words, data, train_data,
          test_data, raised, stats, printed, pc>>

-----------------------------------------------------------------------------
(* Bounds *)

MaxTrained == 3     \* messages trained over the life of one SpamFilter
MaxBatch == 2       \* messages in one train call
MaxCalls == 2       \* train calls on one SpamFilter
MaxLen == 4         \* characters of a tokenizer input
MaxRows == 3        \* rows handed to split_train_test

-----------------------------------------------------------------------------
(* Exact fractions *)

RECURSIVE GCD(_, _)
GCD(a, b) == IF b = 0 THEN a ELSE GCD(b, a % b)

Frac(a, b) == LET g == GCD(a, b) IN <<a \div g, b \div g>>

FracMul(x, y) == Frac(x[1] * y[1], x[2] * y[2])

FracLess(x, y) == x[1] * y[2] < y[1] * x[2]

\* 1.0 - x
OneMinus(x) == Frac(x[2] - x[1], x[2])

Half == <<1, 2>>
Zero == <<0, 1>>
One == <<1, 1>>

-----------------------------------------------------------------------------
(* Characters *)

LowerCaseLetters ==
    {"a", "b", "c", "d", "e", "f", "g", "h", "i", "j", "k", "l", "m",
     "n", "o", "p", "q", "r", "s", "t", "u", "v", "w", "x", "y", "z"}

UpperToLower ==
    ("A" :> "a") @@ ("B" :> "b") @@ ("C" :> "c") @@ ("D" :> "d") @@
    ("E" :> "e") @@ ("F" :> "f") @@ ("G" :> "g") @@ ("H" :> "h") @@
    ("I" :> "i") @@ ("J" :> "j") @@ ("K" :> "k") @@ ("L" :> "l") @@
    ("M" :> "m") @@ ("N" :> "n") @@ ("O" :> "o") @@ ("P" :> "p") @@
    ("Q" :> "q") @@ ("R" :> "r") @@ ("S" :> "s") @@ ("T" :> "t") @@
    ("U" :> "u") @@ ("V" :> "v") @@ ("W" :> "w") @@ ("X" :> "x") @@
    ("Y" :> "y") @@ ("Z" :> "z")

UpperCaseLetters == DOMAIN UpperToLower

Digits == {"0", "1", "2", "3", "4", "5", "6", "7", "8", "9"}

\* str.lower() on one character
CharLower(c) == IF c \in UpperCaseLetters THEN UpperToLower[c] ELSE c

\* the character class [a-z0-9'] under re.IGNORECASE
InCharClass(c) ==
    \/ c \in LowerCaseLetters
    \/ c \in UpperCaseLetters
    \/ c \in Digits
    \/ c = "'"

-----------------------------------------------------------------------------
(* SpamFilter._tokenize_words *)

\* re.findall(r"[a-z0-9']+", message, re.IGNORECASE): the leftmost, greedy,
\* non-overlapping matches, each a sequence of characters, in order.
RECURSIVE FindAllFrom(_, _, _, _)
FindAllFrom(msg, i, run, acc) ==
    IF i > Len(msg)
    THEN IF run = <<>> THEN acc ELSE Append(acc, run)
    ELSE IF InCharClass(msg[i])
         THEN FindAllFrom(msg, i + 1, Append(run, msg[i]), acc)
         ELSE FindAllFrom(msg, i + 1, <<>>,
                          IF run = <<>> THEN acc ELSE Append(acc, run))

FindAll(msg) == FindAllFrom(msg, 1, <<>>, <<>>)

\* word.lower(): the string of the lowercased characters of a match
RECURSIVE WordLower(_)
WordLower(word) ==
    IF word = <<>> THEN ""
    ELSE CharLower(Head(word)) \o WordLower(Tail(word))

TokenizeWords(msg) ==
    LET found == FindAll(msg)
    IN  {WordLower(found[i]) : i \in 1..Len(found)}

-----------------------------------------------------------------------------
(* SpamFilter state *)

\* __init__
NewFilter ==
    [number_of_spam_messages     |-> 0,
     number_of_non_spam_messages |-> 0,
     words_count                 |-> <<>>,
     words_probabilities         |-> <<>>]

\* d[key] on a defaultdict: the stored value, or the factory's value
Item(d, key, default) == IF key \in DOMAIN d THEN d[key] ELSE default

\* d[key] = value
SetItem(d, key, value) ==
    [k \in DOMAIN d \cup {key} |-> IF k = key THEN value ELSE d[k]]

\* a set as a sequence, in some order (iteration order of a set or dict)
RECURSIVE SetToSeq(_)
SetToSeq(S) ==
    IF S = {} THEN <<>>
    ELSE LET x == CHOOSE y \in S : TRUE
         IN  <<x>> \o SetToSeq(S \ {x})

-----------------------------------------------------------------------------
(* SpamFilter._add_messages and SpamFilter._recalculate_probabilities *)

\* Smooth without the pseudo-count: count / (1 + total)
SmoothNoPseudoCount(count, total) == Frac(count, 1 + total)

\* Smooth with pseudo-count 1: (1 + count) / (2 + total)
SmoothPseudoCountOne(count, total) == Frac(1 + count, 2 + total)

\* (0.5 + count) / (1 + total)
Smooth(count, total) == Frac(2 * count + 1, 2 * (1 + total))

\* for word in words: self._words_count[word][0 or 1] += 1
RECURSIVE CountWords(_, _, _)
CountWords(wc, ws, is_spam) ==
    IF ws = <<>> THEN wc
    ELSE LET word == Head(ws)
             old  == Item(wc, word, <<0, 0>>)
             new  == IF is_spam THEN <<old[1] + 1, old[2]>>
                                ELSE <<old[1], old[2] + 1>>
         IN  CountWords(SetItem(wc, word, new), Tail(ws), is_spam)

\* AddMessage counting every match of findall instead of the set of words
AddMessageEveryOccurrence(st, m) ==
    LET is_spam == m[1]
        found   == FindAll(m[2])
        ws      == [i \in 1..Len(found) |-> WordLower(found[i])]
    IN  [st EXCEPT
            !.number_of_spam_messages     = IF is_spam THEN @ + 1 ELSE @,
            !.number_of_non_spam_messages = IF is_spam THEN @ ELSE @ + 1,
            !.words_count                 = CountWords(@, ws, is_spam)]

\* one iteration of the loop over messages
AddMessage(st, m) ==
    LET is_spam == m[1]
        ws      == SetToSeq(TokenizeWords(m[2]))
    IN  [st EXCEPT
            !.number_of_spam_messages     = IF is_spam THEN @ + 1 ELSE @,
            !.number_of_non_spam_messages = IF is_spam THEN @ ELSE @ + 1,
            !.words_count                 = CountWords(@, ws, is_spam)]

RECURSIVE FoldMessages(_, _)
FoldMessages(st, messages) ==
    IF messages = <<>> THEN st
    ELSE FoldMessages(AddMessage(st, Head(messages)), Tail(messages))

\* RecalculateProbabilities that computes an entry only for a word that has
\* none yet
RecalculateNewWordsOnly(st) ==
    LET wc == st.words_count
        wp == st.words_probabilities
    IN  [st EXCEPT !.words_probabilities =
            [word \in DOMAIN wp \cup DOMAIN wc |->
                IF word \notin DOMAIN wp
                THEN <<Smooth(wc[word][1], st.number_of_spam_messages),
                       Smooth(wc[word][2], st.number_of_non_spam_messages)>>
                ELSE wp[word]]]

RecalculateProbabilities(st) ==
    LET wc == st.words_count
        wp == st.words_probabilities
    IN  [st EXCEPT !.words_probabilities =
            [word \in DOMAIN wp \cup DOMAIN wc |->
                IF word \in DOMAIN wc
                THEN <<Smooth(wc[word][1], st.number_of_spam_messages),
                       Smooth(wc[word][2], st.number_of_non_spam_messages)>>
                ELSE wp[word]]]

AddMessages(st, messages) ==
    RecalculateProbabilities(FoldMessages(st, messages))

-----------------------------------------------------------------------------
(* SpamFilter.probability_spam *)

\* x + y on fractions, over the least common denominator
FracAdd(x, y) ==
    LET l == (x[2] \div GCD(x[2], y[2])) * y[2]
    IN  Frac(x[1] * (l \div x[2]) + y[1] * (l \div y[2]), l)

\* x / y on fractions, y # 0
FracDiv(x, y) ==
    LET g1 == GCD(x[1], y[1])
        g2 == GCD(x[2], y[2])
    IN  IF x[1] = 0 THEN Zero
        ELSE Frac((x[1] \div g1) * (y[2] \div g2),
                  (x[2] \div g2) * (y[1] \div g1))

\* (0.5 + n) / (1 + spam + non_spam), before math.log
Prior(n, st) ==
    Frac(2 * n + 1,
         2 * (1 + st.number_of_spam_messages + st.number_of_non_spam_messages))

\* WordTerm with the two branches exchanged
WordTermSwapped(prob, present) == IF present THEN OneMinus(prob) ELSE prob

\* the factor one vocabulary word contributes to an accumulator
WordTerm(prob, present) == IF present THEN prob ELSE OneMinus(prob)

\* the loop over self._words_probabilities.items(); acc is the pair
\* <<spam_probability, non_spam_probability>>
RECURSIVE Accumulate(_, _, _, _)
Accumulate(acc, wp, ws, words_in_message) ==
    IF ws = <<>> THEN acc
    ELSE LET word    == Head(ws)
             present == word \in words_in_message
         IN  Accumulate(<<FracMul(acc[1], WordTerm(wp[word][1], present)),
                          FracMul(acc[2], WordTerm(wp[word][2], present))>>,
                        wp, Tail(ws), words_in_message)

\* Normalize returning the odds math.exp(s) / math.exp(n)
NormalizeOdds(s, n) == FracDiv(s, n)

\* math.exp(s) / (math.exp(s) + math.exp(n))
Normalize(s, n) == FracDiv(s, FracAdd(s, n))

\* math.log(x) raises ValueError unless x > 0
LogDefined(x) == x[1] > 0

\* probability_spam reading self._words_probabilities[word] for the words of
\* the message: the defaultdict inserts [0.0, 0.0] for a word it has not seen
ProbabilitySpamByLookup(st, msg) ==
    LET wp == st.words_probabilities
    IN  [value  |-> Half,
         raised |-> "none",
         self   |-> [st EXCEPT !.words_probabilities =
                        [w \in DOMAIN wp \cup TokenizeWords(msg) |->
                            IF w \in DOMAIN wp THEN wp[w] ELSE <<Zero, Zero>>]]]

\* The call's outcome and the instance as the call leaves it.  The body
\* reads the attributes and iterates .items(); it performs no lookup by key
\* on either defaultdict and no assignment to self.
ProbabilitySpam(st, msg) ==
    LET words_in_message == TokenizeWords(msg)
        wp     == st.words_probabilities
        priors == <<Prior(st.number_of_spam_messages, st),
                    Prior(st.number_of_non_spam_messages, st)>>
        terms  == {WordTerm(wp[w][c], w \in words_in_message) :
                      w \in DOMAIN wp, c \in {1, 2}}
        acc    == Accumulate(priors, wp, SetToSeq(DOMAIN wp), words_in_message)
    IN  IF \A x \in terms \cup {priors[1], priors[2]} : LogDefined(x)
        THEN [value  |-> Normalize(acc[1], acc[2]),
              raised |-> "none",
              self   |-> st]
        ELSE [value  |-> <<0, 0>>,
              raised |-> "ValueError",
              self   |-> st]

-----------------------------------------------------------------------------
(* Inputs of the SpamFilter specification *)

WinMoneyNow == <<"w","i","n"," ","m","o","n","e","y"," ","n","o","w">>
MeetingNotesAttached ==
    <<"m","e","e","t","i","n","g"," ","n","o","t","e","s"," ",
      "a","t","t","a","c","h","e","d">>
WinMoney == <<"w","i","n"," ","m","o","n","e","y">>
MeetingNotes == <<"m","e","e","t","i","n","g"," ","n","o","t","e","s">>
WinWin == <<"W","i","n"," ","w","i","n","!">>
FreeNotes == <<"F","R","E","E"," ","n","o","t","e","s">>
Empty == <<>>


\* texts handed to probability_spam
Queries == {WinMoney, MeetingNotes, FreeNotes}

\* labelled messages handed to train
Messages ==
    {<<TRUE, WinMoneyNow>>, <<FALSE, MeetingNotesAttached>>,
     <<TRUE, WinWin>>, <<FALSE, WinWin>>, <<FALSE, Empty>>}

SeqsUpTo(S, n) == UNION {[1..k -> S] : k \in 0..n}

NoResult == <<0, 0>>

NoStats == [TP |-> 0, FP |-> 0, TN |-> 0, FN |-> 0]

Init ==
    /\ filter = NewFilter
    /\ history = <<>>
    /\ batches = <<>>
    /\ result = NoResult
    /\ message = <<>>
    /\ words = {}
    /\ data = <<>>
    /\ train_data = <<>>
    /\ test_data = <<>>
    /\ raised = "none"
    /\ stats = NoStats
    /\ printed = "nothing"
    /\ pc = "ready"

\* s.train(messages)
Train(messages) ==
    /\ Len(batches) < MaxCalls
    /\ Len(history) + Len(messages) <= MaxTrained
    /\ filter' = AddMessages(filter, messages)
    /\ history' = history \o messages
    /\ batches' = Append(batches, Len(messages))
    /\ result' = NoResult
    /\ message' = <<>>
    /\ raised' = "none"
    /\ pc' = "trained"
    /\ UNCHANGED <<words, data, train_data, test_data, stats, printed>>

\* s.probability_spam(msg)
Classify(msg) ==
    LET call == ProbabilitySpam(filter, msg)
    IN  /\ filter' = call.self
        /\ result' = call.value
        /\ raised' = call.raised
        /\ message' = msg
        /\ pc' = "classified"
        /\ UNCHANGED <<history, batches, words, data, train_data, test_data,
                       stats, printed>>

Next ==
    \/ \E messages \in SeqsUpTo(Messages, MaxBatch) : Train(messages)
    \/ \E msg \in Queries : Classify(msg)

Spec == Init /\ [][Next]_vars

-----------------------------------------------------------------------------
(* Properties of the SpamFilter specification *)

spam_total == filter.number_of_spam_messages
non_spam_total == filter.number_of_non_spam_messages
words_count == filter.words_count
words_probabilities == filter.words_probabilities

Reordered(p) == [i \in 1..Len(history) |-> history[p[i]]]

\* C1: whatever the batches the messages arrived in, and in whatever order,
\* the filter (class totals, word counts, word probabilities) equals the
\* filter a fresh instance reaches by one train call on all the messages,
\* taken in any order.
C1_BatchBoundariesIrrelevant ==
    \A p \in Permutations(1..Len(history)) :
        filter = AddMessages(NewFilter, Reordered(p))

\* at least two non-empty batches, with a token shared by a spam and a
\* non-spam message
C1_Witness ==
    /\ Cardinality({i \in DOMAIN batches : batches[i] > 0}) >= 2
    /\ \E i, j \in DOMAIN history :
          /\ history[i][1] /\ ~history[j][1]
          /\ TokenizeWords(history[i][2]) \cap TokenizeWords(history[j][2]) # {}

\* C2: every stored probability is strictly between 0 and 1.
C2_ProbabilitiesStrictlyInside ==
    \A w \in DOMAIN words_probabilities : \A c \in {1, 2} :
        /\ FracLess(Zero, words_probabilities[w][c])
        /\ FracLess(words_probabilities[w][c], One)

\* a token with count 0 in a class and a token whose count is the class total
C2_Witness ==
    /\ spam_total > 0
    /\ \E w \in DOMAIN words_count : words_count[w][1] = 0
    /\ \E w \in DOMAIN words_count : words_count[w][1] = spam_total
    /\ DOMAIN words_probabilities = DOMAIN words_count

\* C4: on a filter that no message was trained on, probability_spam returns
\* 0.5 and raises nothing.
C4_UntrainedIsHalf ==
    (pc = "classified" /\ history = <<>>) =>
        (result = Half /\ raised = "none")

\* probability_spam after train calls with empty batches only
C4_Witness ==
    /\ pc = "classified"
    /\ history = <<>>
    /\ Len(batches) > 0
    /\ DOMAIN words_probabilities = {}

C5_Scenario ==
    /\ history = <<<<TRUE, WinMoneyNow>>, <<FALSE, MeetingNotesAttached>>>>
    /\ batches = <<2>>

\* C5: after the one batch [(True, "win money now"), (False, "meeting notes
\* attached")] the vocabulary is the six words, "win money" scores above
\* 0.5 and "meeting notes" below.
C5_ConcreteScenario ==
    C5_Scenario =>
        /\ DOMAIN words_count =
              {"win", "money", "now", "meeting", "notes", "attached"}
        /\ DOMAIN words_probabilities = DOMAIN words_count
        /\ (pc = "classified" /\ message = WinMoney) =>
              (raised = "none" /\ FracLess(Half, result))
        /\ (pc = "classified" /\ message = MeetingNotes) =>
              (raised = "none" /\ FracLess(result, Half))

C5_Witness ==
    /\ C5_Scenario
    /\ pc = "classified"
    /\ message = WinMoney
    /\ result = <<81, 82>>

\* C6: every counter is a natural number no larger than the number of
\* messages of its class that were trained.
C6_CountsBoundedByTotals ==
    /\ spam_total = Cardinality({i \in DOMAIN history : history[i][1]})
    /\ non_spam_total = Cardinality({i \in DOMAIN history : ~history[i][1]})
    /\ \A w \in DOMAIN words_count :
          /\ words_count[w][1] \in 0..spam_total
          /\ words_count[w][2] \in 0..non_spam_total

\* a message that repeats a token was trained, and the token's count is the
\* class total
C6_Witness ==
    /\ \E i \in DOMAIN history :
          history[i][1] /\ Len(FindAll(history[i][2])) >
                             Cardinality(TokenizeWords(history[i][2]))
    /\ "win" \in DOMAIN words_count
    /\ words_count["win"][1] = spam_total

\* C7: a probability_spam call leaves the instance as it was.
C7_ClassifyReadOnly ==
    [][pc' = "classified" => filter' = filter]_vars

\* probability_spam was called on a trained filter with a word it never saw
C7_Witness ==
    /\ pc = "classified"
    /\ history # <<>>
    /\ TokenizeWords(message) \ DOMAIN words_probabilities # {}
    /\ TokenizeWords(message) \cap DOMAIN words_probabilities # {}

\* C10: the two mappings have the same keys, and every stored pair is the
\* smoothing formula on the cumulative counters and class totals.
C10_ProbabilitiesCurrent ==
    /\ DOMAIN words_probabilities = DOMAIN words_count
    /\ \A w \in DOMAIN words_count :
          /\ words_probabilities[w][1][1] * 2 * (1 + spam_total)
                = (2 * words_count[w][1] + 1) * words_probabilities[w][1][2]
          /\ words_probabilities[w][2][1] * 2 * (1 + non_spam_total)
                = (2 * words_count[w][2] + 1) * words_probabilities[w][2][2]

\* a later batch changed a class total and did not contain a word of an
\* earlier batch
C10_Witness ==
    /\ batches = <<1, 1>>
    /\ history[1][1] = history[2][1]
    /\ TokenizeWords(history[1][2]) \ TokenizeWords(history[2][2]) # {}

-----------------------------------------------------------------------------
(* The tokenizer on its own *)

\* characters of the tokenizer's inputs: a lower-case and an upper-case
\* letter, a digit, the apostrophe, the dash and a blank
Alphabet == {"a", "B", "1", "'", "-", " "}

InitTokenize ==
    /\ message \in SeqsUpTo(Alphabet, MaxLen)
    /\ words = {}
    /\ pc = "ready"
    /\ filter = NewFilter
    /\ history = <<>>
    /\ batches = <<>>
    /\ result = NoResult
    /\ data = <<>>
    /\ train_data = <<>>
    /\ test_data = <<>>
    /\ raised = "none"
    /\ stats = NoStats
    /\ printed = "nothing"

\* SpamFilter._tokenize_words(message)
Tokenize ==
    /\ pc = "ready"
    /\ words' = TokenizeWords(message)
    /\ pc' = "tokenized"
    /\ UNCHANGED <<filter, history, batches, result, message, data,
                   train_data, test_data, raised, stats, printed>>

NextTokenize == Tokenize

SpecTokenize == InitTokenize /\ [][NextTokenize]_vars

\* the characters a word is documented to be made of
DocumentedChar(c) == InCharClass(c) \/ c = "-"

\* msg[i..j] is a maximal run of documented characters
MaximalRun(msg, i, j) ==
    /\ i <= j
    /\ \A k \in i..j : DocumentedChar(msg[k])
    /\ i = 1 \/ ~DocumentedChar(msg[i - 1])
    /\ j = Len(msg) \/ ~DocumentedChar(msg[j + 1])

\* C3: the tokenizer returns exactly the lowercased maximal runs of letters,
\* digits, apostrophes and dashes.
C3_TokensAreDocumentedRuns ==
    pc = "tokenized" =>
        words = {WordLower(SubSeq(message, i, j)) :
                    <<i, j>> \in {r \in (1..Len(message)) \X (1..Len(message)) :
                                     MaximalRun(message, r[1], r[2])}}

-----------------------------------------------------------------------------
(* split_train_test *)

\* test_size is carried in hundredths: 20 stands for 0.2.  For the values
\* used here int(test_size * 100) is that number of hundredths.
\* not 0.99 > test_size > 0.1
InvalidTestSize(test_size) == ~(99 > test_size /\ test_size > 10)

\* SplitRows sending a row whose draw equals test_size_int to both lists
RECURSIVE SplitRowsOverlapping(_, _, _)
SplitRowsOverlapping(rows, test_size_int, draws) ==
    IF rows = <<>> THEN <<<<>>, <<>>>>
    ELSE LET rest == SplitRowsOverlapping(Tail(rows), test_size_int, Tail(draws))
             row  == Head(rows)
         IN  <<IF Head(draws) >= test_size_int
               THEN <<row>> \o rest[1] ELSE rest[1],
               IF Head(draws) <= test_size_int
               THEN <<row>> \o rest[2] ELSE rest[2]>>

\* the loop over data: <<train_data, test_data>>, where draws[i] is the
\* value random.randint(1, 100) returns for the i-th row
RECURSIVE SplitRows(_, _, _)
SplitRows(rows, test_size_int, draws) ==
    IF rows = <<>> THEN <<<<>>, <<>>>>
    ELSE LET rest == SplitRows(Tail(rows), test_size_int, Tail(draws))
             row  == Head(rows)
         IN  IF Head(draws) <= test_size_int
             THEN <<rest[1], <<row>> \o rest[2]>>
             ELSE <<<<row>> \o rest[1], rest[2]>>

SplitTrainTest(rows, test_size, draws) ==
    IF InvalidTestSize(test_size)
    THEN [raised |-> "ValueError", train |-> <<>>, test |-> <<>>]
    ELSE LET lists == SplitRows(rows, test_size, draws)
         IN  [raised |-> "none", train |-> lists[1], test |-> lists[2]]

\* values of test_size: 0.05, 0.2, 0.4, 1.0
TestSizes == {5, 20, 40, 100}

\* values of random.randint(1, 100): the ends of the range and the values
\* on either side of the thresholds
Draws == {1, 20, 21, 40, 41, 100}

\* rows handed to split_train_test
Rows == {<<TRUE, WinMoney>>, <<FALSE, MeetingNotes>>, <<FALSE, Empty>>}

InitSplit ==
    /\ data \in SeqsUpTo(Rows, MaxRows)
    /\ train_data = <<>>
    /\ test_data = <<>>
    /\ raised = "none"
    /\ pc = "ready"
    /\ filter = NewFilter
    /\ history = <<>>
    /\ batches = <<>>
    /\ result = NoResult
    /\ message = <<>>
    /\ words = {}
    /\ stats = NoStats
    /\ printed = "nothing"

\* split_train_test(data, test_size) returns
Split(test_size, draws) ==
    LET call == SplitTrainTest(data, test_size, draws)
    IN  /\ pc = "ready"
        /\ call.raised = "none"
        /\ train_data' = call.train
        /\ test_data' = call.test
        /\ pc' = "split"
        /\ UNCHANGED <<filter, history, batches, result, message, words,
                       data, raised, stats, printed>>

\* split_train_test(data, test_size) raises
SplitRejected(test_size, draws) ==
    LET call == SplitTrainTest(data, test_size, draws)
    IN  /\ pc = "ready"
        /\ call.raised # "none"
        /\ raised' = call.raised
        /\ pc' = "raised"
        /\ UNCHANGED <<filter, history, batches, result, message, words,
                       data, train_data, test_data, stats, printed>>

NextSplit ==
    \/ \E test_size \in TestSizes, draws \in [1..Len(data) -> Draws] :
          Split(test_size, draws)
    \/ \E test_size \in TestSizes, draws \in [1..Len(data) -> Draws] :
          SplitRejected(test_size, draws)

SpecSplit == InitSplit /\ [][NextSplit]_vars

\* the rows of a list at the positions in S, in order
RECURSIVE Select(_, _, _)
Select(rows, S, i) ==
    IF i > Len(rows) THEN <<>>
    ELSE (IF i \in S THEN <<rows[i]>> ELSE <<>>) \o Select(rows, S, i + 1)

\* C8: the two returned lists partition the input: some set of positions
\* went to the test list and exactly the other positions to the train list.
C8_SplitPartitions ==
    pc = "split" =>
        /\ Len(train_data) + Len(test_data) = Len(data)
        /\ \E S \in SUBSET (1..Len(data)) :
              /\ test_data = Select(data, S, 1)
              /\ train_data = Select(data, (1..Len(data)) \ S, 1)

\* an input with a repeated row was split into two non-empty lists
C8_Witness ==
    /\ pc = "split"
    /\ train_data # <<>>
    /\ test_data # <<>>
    /\ \E i, j \in DOMAIN data : i # j /\ data[i] = data[j]

-----------------------------------------------------------------------------
(* The __main__ script *)

\* lines of SMSSpamCollection.txt, each split at its first tab
Lines ==
    {<<"spam", WinMoneyNow>>, <<"ham", MeetingNotesAttached>>,
     <<"spam", WinMoney>>}

\* messages.append((category == 'spam', message)) for every line
ReadMessages(lines) ==
    [i \in 1..Len(lines) |-> <<lines[i][1] = "spam", lines[i][2]>>]

\* the test loop: stats after the messages of the test list
RECURSIVE TestLoop(_, _, _)
TestLoop(st, tests, counts) ==
    IF tests = <<>> THEN counts
    ELSE LET is_spam   == Head(tests)[1]
             call      == ProbabilitySpam(st, Head(tests)[2])
             spam_prob == FracLess(Half, call.value)
             key       == IF spam_prob
                          THEN IF is_spam THEN "TP" ELSE "FP"
                          ELSE IF is_spam THEN "FN" ELSE "TN"
         IN  TestLoop(call.self, Tail(tests),
                      [counts EXCEPT ![key] = @ + 1])

\* '{0:.2%}'.format(x): x in hundredths of a percent, rounded to nearest
Percent(x) == (2 * 10000 * x[1] + x[2]) \div (2 * x[2])

InitMain ==
    /\ pc = "main_read"
    /\ filter = NewFilter
    /\ history = <<>>
    /\ batches = <<>>
    /\ result = NoResult
    /\ message = <<>>
    /\ words = {}
    /\ data = <<>>
    /\ train_data = <<>>
    /\ test_data = <<>>
    /\ raised = "none"
    /\ stats = NoStats
    /\ printed = "nothing"

\* lines 179-186: read the file
MainRead(lines) ==
    /\ pc = "main_read"
    /\ data' = ReadMessages(lines)
    /\ pc' = "main_split"
    /\ UNCHANGED <<filter, history, batches, result, message, words,
                   train_data, test_data, raised, stats, printed>>

\* line 191: train, test = split_train_test(messages, 0.2)
MainSplit(draws) ==
    LET call == SplitTrainTest(data, 20, draws)
    IN  /\ pc = "main_split"
        /\ train_data' = call.train
        /\ test_data' = call.test
        /\ raised' = call.raised
        /\ pc' = IF call.raised = "none" THEN "main_train" ELSE "main_crashed"
        /\ UNCHANGED <<filter, history, batches, result, message, words,
                       data, stats, printed>>

\* lines 194-195: s = SpamFilter(); s.train(train)
MainTrain ==
    /\ pc = "main_train"
    /\ filter' = AddMessages(NewFilter, train_data)
    /\ history' = train_data
    /\ batches' = <<Len(train_data)>>
    /\ pc' = "main_test"
    /\ UNCHANGED <<result, message, words, data, train_data, test_data,
                   raised, stats, printed>>

\* lines 198-211: the test loop
MainTest ==
    /\ pc = "main_test"
    /\ stats' = TestLoop(filter, test_data, NoStats)
    /\ pc' = "main_report"
    /\ UNCHANGED <<filter, history, batches, result, message, words, data,
                   train_data, test_data, raised, printed>>

\* lines 213-214: print(stats), then the precision line
MainReport ==
    /\ pc = "main_report"
    /\ IF stats.TP + stats.FP = 0
       THEN /\ raised' = "ZeroDivisionError"
            /\ printed' = "stats"
            /\ pc' = "main_crashed"
       ELSE /\ raised' = raised
            /\ printed' = <<"Precision", Percent(<<stats.TP, stats.TP + stats.FP>>)>>
            /\ pc' = "main_done"
    /\ UNCHANGED <<filter, history, batches, result, message, words, data,
                   train_data, test_data, stats>>

NextMain ==
    \/ \E lines \in SeqsUpTo(Lines, MaxRows) : MainRead(lines)
    \/ \E draws \in [1..Len(data) -> Draws] : MainSplit(draws)
    \/ MainTrain
    \/ MainTest
    \/ MainReport

SpecMain == InitMain /\ [][NextMain]_vars

\* C9: a test run without predicted positives ends with the precision
\* reported as undefined, not with an exception.
C9_PrecisionGuarded ==
    (pc \in {"main_done", "main_crashed"} /\ stats.TP + stats.FP = 0) =>
        (pc = "main_done" /\ raised = "none" /\ printed = "undefined")

====
